---- MODULE Spec2Model ----
(***************************************************************************)
(* four2six: an IPv4-to-IPv6 TCP relay whose destination address is        *)
(* updated through a token-protected webhook (src/main.go, the multi-port  *)
(* version that starts at line 204).                                       *)
(*                                                                         *)
(* Texts (request bodies, addresses, header values, file contents) are     *)
(* sequences of one-character strings.                                     *)
(***************************************************************************)
EXTENDS Integers, Sequences, FiniteSets, TLC

(***************************************************************************)
(* Character classes of the regular expression at main.go:322.             *)
(***************************************************************************)
Digit == {"0", "1", "2", "3", "4", "5", "6", "7", "8", "9"}

HexLetter == {"a", "b", "c", "d", "e", "f", "A", "B", "C", "D", "E", "F"}

Hex == Digit \cup HexLetter

Letter == {"a", "b", "c", "d", "e", "f", "g", "h", "i", "j", "k", "l", "m",
           "n", "o", "p", "q", "r", "s", "t", "u", "v", "w", "x", "y", "z",
           "A", "B", "C", "D", "E", "F", "G", "H", "I", "J", "K", "L", "M",
           "N", "O", "P", "Q", "R", "S", "T", "U", "V", "W", "X", "Y", "Z"}

AlNum == Digit \cup Letter

(***************************************************************************)
(* Regular expressions as trees: a character class, a concatenation, an    *)
(* ordered alternation and a greedy counted repetition.                    *)
(***************************************************************************)
Cls(S) == [t |-> "cls", s |-> S]

Chr(c) == Cls({c})

Cat(l) == [t |-> "cat", l |-> l]

Alt(l) == [t |-> "alt", l |-> l]

Rep(r, lo, hi) == [t |-> "rep", r |-> r, lo |-> lo, hi |-> hi]

\* {n,}: no upper limit on the repetitions
Unbounded == 1000

\* The sequence q without the elements it repeats (the first occurrence stays).
RECURSIVE Dedup(_, _)
Dedup(q, seen) ==
    IF q = <<>> THEN <<>>
    ELSE IF Head(q) \in seen THEN Dedup(Tail(q), seen)
         ELSE <<Head(q)>> \o Dedup(Tail(q), seen \cup {Head(q)})

(***************************************************************************)
(* Ends(n, s, p): the positions at which a match of n that starts at       *)
(* position p of s can end, in the order in which a backtracking matcher   *)
(* tries them (Go's regexp returns the match such a matcher finds first:   *)
(* the first alternative that matches wins, repetitions are greedy).       *)
(***************************************************************************)
RECURSIVE Ends(_, _, _), EndsFromAll(_, _, _), CatEnds(_, _, _, _), AltEnds(_, _, _, _), RepEnds(_, _, _, _, _)
Ends(n, s, p) ==
    CASE n.t = "cls" -> IF p <= Len(s) /\ s[p] \in n.s THEN <<p + 1>> ELSE <<>>
      [] n.t = "cat" -> CatEnds(n.l, 1, s, <<p>>)
      [] n.t = "alt" -> Dedup(AltEnds(n.l, 1, s, p), {})
      [] n.t = "rep" -> Dedup(RepEnds(n.r, n.lo, n.hi, s, p), {})

EndsFromAll(n, s, ps) ==
    IF ps = <<>> THEN <<>>
    ELSE Ends(n, s, Head(ps)) \o EndsFromAll(n, s, Tail(ps))

CatEnds(l, k, s, ps) ==
    IF k > Len(l) \/ ps = <<>> THEN ps
    ELSE CatEnds(l, k + 1, s, Dedup(EndsFromAll(l[k], s, ps), {}))

AltEnds(l, k, s, p) ==
    IF k > Len(l) THEN <<>>
    ELSE Ends(l[k], s, p) \o AltEnds(l, k + 1, s, p)

RECURSIVE RepEndsFromAll(_, _, _, _, _)
RepEndsFromAll(r, lo, hi, s, ps) ==
    IF ps = <<>> THEN <<>>
    ELSE RepEnds(r, lo, hi, s, Head(ps)) \o RepEndsFromAll(r, lo, hi, s, Tail(ps))

RepEnds(r, lo, hi, s, p) ==
    LET more == IF hi > 0
                THEN RepEndsFromAll(r, IF lo > 0 THEN lo - 1 ELSE 0, hi - 1, s,
                                    SelectSeq(Ends(r, s, p), LAMBDA e : e > p))
                ELSE <<>>
    IN  more \o (IF lo = 0 THEN <<p>> ELSE <<>>)

(***************************************************************************)
(* The expression of main.go:322, alternative by alternative.              *)
(***************************************************************************)
H4 == Rep(Cls(Hex), 1, 4)

HC == Cat(<<H4, Chr(":")>>)

CH == Cat(<<Chr(":"), H4>>)

\* (25[0-5]|(2[0-4]|1{0,1}[0-9]){0,1}[0-9])
Octet ==
    Alt(<<Cat(<<Chr("2"), Chr("5"), Cls({"0", "1", "2", "3", "4", "5"})>>),
          Cat(<<Rep(Alt(<<Cat(<<Chr("2"), Cls({"0", "1", "2", "3", "4"})>>),
                          Cat(<<Rep(Chr("1"), 0, 1), Cls(Digit)>>)>>), 0, 1),
                Cls(Digit)>>)>>)

\* ((25[0-5]|...)\.){3,3}(25[0-5]|...)
DottedQuad == Cat(<<Rep(Cat(<<Octet, Chr(".")>>), 3, 3), Octet>>)

ipv6RegEx ==
    Alt(<<
        Cat(<<Rep(HC, 7, 7), H4>>),
        Cat(<<Rep(HC, 1, 7), Chr(":")>>),
        Cat(<<Rep(HC, 1, 6), Chr(":"), H4>>),
        Cat(<<Rep(HC, 1, 5), Rep(CH, 1, 2)>>),
        Cat(<<Rep(HC, 1, 4), Rep(CH, 1, 3)>>),
        Cat(<<Rep(HC, 1, 3), Rep(CH, 1, 4)>>),
        Cat(<<Rep(HC, 1, 2), Rep(CH, 1, 5)>>),
        Cat(<<H4, Chr(":"), Rep(CH, 1, 6)>>),
        Cat(<<Chr(":"), Alt(<<Rep(CH, 1, 7), Chr(":")>>)>>),
        Cat(<<Chr("f"), Chr("e"), Chr("8"), Chr("0"), Chr(":"),
              Rep(Cat(<<Chr(":"), Rep(Cls(Hex), 0, 4)>>), 0, 4),
              Chr("%"), Rep(Cls(AlNum), 1, Unbounded)>>),
        Cat(<<Chr(":"), Chr(":"),
              Rep(Cat(<<Chr("f"), Chr("f"), Chr("f"), Chr("f"),
                        Rep(Cat(<<Chr(":"), Rep(Chr("0"), 1, 4)>>), 0, 1),
                        Chr(":")>>), 0, 1),
              DottedQuad>>),
        Cat(<<Rep(HC, 1, 4), Chr(":"), DottedQuad>>)
    >>)

(***************************************************************************)
(* FindAllString(s, -1): the successive non-overlapping leftmost matches.  *)
(* The expression matches no empty text, so the scan resumes at the end    *)
(* of each match.                                                          *)
(***************************************************************************)
RECURSIVE FindAllFrom(_, _, _)
FindAllFrom(re, s, p) ==
    IF p > Len(s) THEN <<>>
    ELSE LET es == Ends(re, s, p)
         IN  IF es = <<>> THEN FindAllFrom(re, s, p + 1)
             ELSE <<SubSeq(s, p, Head(es) - 1)>> \o FindAllFrom(re, s, Head(es))

FindAllString(re, s) == FindAllFrom(re, s, 1)

(***************************************************************************)
(* Texts used by the model.                                                *)
(***************************************************************************)
\* "2001:db8::1", the built-in default of main.go:436
DefaultAddress == <<"2", "0", "0", "1", ":", "d", "b", "8", ":", ":", "1">>

\* "ip fd::9"
BodyA == <<"i", "p", " ", "f", "d", ":", ":", "9">>

\* "new ::1"
BodyB == <<"n", "e", "w", " ", ":", ":", "1">>

\* "no address here"
BodyNone == <<"n", "o", " ", "a", "d", "d", "r", "e", "s", "s", " ", "h", "e", "r", "e">>

\* WEBHOOK_TOKEN, not empty (main.go:412-415)
WebhookToken == <<"t", "o", "k">>

\* fmt.Sprintf("Bearer %s", token)
BearerOf(token) == <<"B", "e", "a", "r", "e", "r", " ">> \o token

\* SRC_PORTS=8080,7070,9090 and DEST_PORTS=80,443,22
SrcPortsEnv == <<<<"8", "0", "8", "0">>, <<"7", "0", "7", "0">>, <<"9", "0", "9", "0">>>>

DestPortsEnv == <<<<"8", "0">>, <<"4", "4", "3">>, <<"2", "2">>>>

(***************************************************************************)
(* Bounds.                                                                 *)
(***************************************************************************)
\* configured port mappings (listeners)
NumPorts == 2

\* concurrent /update requests
NumReqs == 2

\* inbound connections accepted in a run
MaxConns == 1

IPv4Ports == SubSeq(SrcPortsEnv, 1, NumPorts)

IPv6Ports == SubSeq(DestPortsEnv, 1, NumPorts)

Reqs == 1..NumReqs

Listeners == 1..NumPorts

ConnIds == 1..MaxConns

\* Authorization header values: missing, exact, a prefix, an extension, another token
Headers == {<<>>,
            BearerOf(WebhookToken),
            SubSeq(BearerOf(WebhookToken), 1, Len(BearerOf(WebhookToken)) - 1),
            BearerOf(WebhookToken) \o <<"x">>,
            BearerOf(<<"w", "r", "o", "n", "g">>)}

\* request bodies of the update scenarios
Bodies == {BodyA, BodyB, BodyNone}

(***************************************************************************)
(* Texts of the extraction scenarios: a valid IPv6 literal between a       *)
(* prefix and a suffix of prose, and texts without any address.            *)
(***************************************************************************)
\* full form, "::" leading, trailing and inside, IPv4-embedded, fe80 with zone
Literals == {
    \* 1:2:3:4:5:6:7:8
    <<"1", ":", "2", ":", "3", ":", "4", ":", "5", ":", "6", ":", "7", ":", "8">>,
    \* c995:8375:24d4:fec8:5bcb:f3ed:3d34:a2cd
    <<"c", "9", "9", "5", ":", "8", "3", "7", "5", ":", "2", "4", "d", "4", ":", "f", "e", "c", "8", ":", "5", "b", "c", "b", ":", "f", "3", "e", "d", ":", "3", "d", "3", "4", ":", "a", "2", "c", "d">>,
    \* ::
    <<":", ":">>,
    \* ::1
    <<":", ":", "1">>,
    \* 1::
    <<"1", ":", ":">>,
    \* 2001:db8::42
    <<"2", "0", "0", "1", ":", "d", "b", "8", ":", ":", "4", "2">>,
    \* 2001:db8::1
    <<"2", "0", "0", "1", ":", "d", "b", "8", ":", ":", "1">>,
    \* 1:2:3:4:5:6:7::
    <<"1", ":", "2", ":", "3", ":", "4", ":", "5", ":", "6", ":", "7", ":", ":">>,
    \* ::2:3:4:5:6:7:8
    <<":", ":", "2", ":", "3", ":", "4", ":", "5", ":", "6", ":", "7", ":", "8">>,
    \* 1::8
    <<"1", ":", ":", "8">>,
    \* ::ffff:192.0.2.1
    <<":", ":", "f", "f", "f", "f", ":", "1", "9", "2", ".", "0", ".", "2", ".", "1">>,
    \* 64:ff9b::192.0.2.33
    <<"6", "4", ":", "f", "f", "9", "b", ":", ":", "1", "9", "2", ".", "0", ".", "2", ".", "3", "3">>,
    \* fe80::1%eth0
    <<"f", "e", "8", "0", ":", ":", "1", "%", "e", "t", "h", "0">>}

\* "", "update: ", "IPv6: "
Prefixes == {<<>>, <<"u", "p", "d", "a", "t", "e", ":", " ">>, <<"I", "P", "v", "6", ":", " ">>}

\* "", " done"
Suffixes == {<<>>, <<" ", "d", "o", "n", "e">>}

\* "", "no address here", "time 10:30", "192.0.2.1"
NoAddressTexts == {<<>>, BodyNone, <<"t", "i", "m", "e", " ", "1", "0", ":", "3", "0">>, <<"1", "9", "2", ".", "0", ".", "2", ".", "1">>}

Embedded == {p \o l \o x : p \in Prefixes, l \in Literals, x \in Suffixes}

Texts == Embedded \cup NoAddressTexts

\* " and "
Separator == <<" ", "a", "n", "d", " ">>

\* "use "
Lead == <<"u", "s", "e", " ">>

\* the second address of a text that holds two: ::1, 1:2:3:4:5:6:7:8, 2001:db8::42
Seconds == {
    \* ::1
    <<":", ":", "1">>,
    \* 1:2:3:4:5:6:7:8
    <<"1", ":", "2", ":", "3", ":", "4", ":", "5", ":", "6", ":", "7", ":", "8">>,
    \* 2001:db8::42
    <<"2", "0", "0", "1", ":", "d", "b", "8", ":", ":", "4", "2">>}

\* texts with two IPv6 literals: "use <first> and <second>"
TwoAddressTexts == {Lead \o a \o Separator \o b : a \in Literals, b \in Seconds}

\* runs that are no IPv6 literal: nine and ten groups, "::" twice
MalformedRuns == {
    \* 1:2:3:4:5:6:7:8:9
    <<"1", ":", "2", ":", "3", ":", "4", ":", "5", ":", "6", ":", "7", ":", "8", ":", "9">>,
    \* 1:2:3:4:5:6:7:8:9:a
    <<"1", ":", "2", ":", "3", ":", "4", ":", "5", ":", "6", ":", "7", ":", "8", ":", "9", ":", "a">>,
    \* 1::2::3
    <<"1", ":", ":", "2", ":", ":", "3">>,
    \* ::1::
    <<":", ":", "1", ":", ":">>,
    \* a::b::c:d
    <<"a", ":", ":", "b", ":", ":", "c", ":", "d">>}

\* a malformed run alone, and in prose
MalformedTexts == {p \o m \o x : p \in Prefixes, m \in MalformedRuns, x \in Suffixes}

ScanTexts == TwoAddressTexts \cup MalformedTexts

\* ipv6RegEx.FindAllString(bodyString, -1) for each body (main.go:322-323)
Matches == [b \in Bodies \cup Texts \cup ScanTexts |-> FindAllString(ipv6RegEx, b)]

\* "fd00::7", the content of a file left by an earlier run
SavedAddress == <<"f", "d", "0", "0", ":", ":", "7">>

\* the persisted file before the process starts: absent, or left by an earlier run
StartFiles == {[exists |-> FALSE, data |-> <<>>, history |-> {}],
               [exists |-> TRUE, data |-> SavedAddress, history |-> {}]}

(***************************************************************************)
(* State.                                                                  *)
(*   IPv6Address  config.IPv6Address                                       *)
(*   file         data/ipv6_address.txt: its content, and the contents the *)
(*                completed writes of this run have left in it (history)   *)
(*   mu           config.mu: writer is the task inside Lock() (waiting for *)
(*                the readers to leave, or holding the lock once held is   *)
(*                TRUE), readers the tasks holding the read lock           *)
(*   req          the /update handlers                                     *)
(*   writeLog     the requests in the order of their in-memory writes      *)
(*   mainI        the position of main's loop over config.IPv4Ports        *)
(*   lis          the listener goroutines                                  *)
(*   conns        the accepted inbound connections                         *)
(*   alive        FALSE once log.Fatalf has ended the process              *)
(*   relay        one call of forward(src, dst) and the two peers of its   *)
(*                connections, followed step by step in RelaySpec          *)
(*   health       one call of the /health handler                          *)
(***************************************************************************)
VARIABLES IPv6Address, file, mu, req, writeLog, mainI, lis, conns, alive, relay, health

vars == <<IPv6Address, file, mu, req, writeLog, mainI, lis, conns, alive, relay, health>>

NoTask == <<"none", 0>>

ReqTask(r) == <<"update", r>>

LisTask(k) == <<"listener", k>>

Whitespace == {" ", "\n", "\t", "\r"}

\* fmt.Fscanf(file, "%s", &ipv6Addr): the first space-delimited token
RECURSIVE SkipSpace(_), TakeToken(_)
SkipSpace(s) ==
    IF s # <<>> /\ Head(s) \in Whitespace THEN SkipSpace(Tail(s)) ELSE s

TakeToken(s) ==
    IF s = <<>> \/ Head(s) \in Whitespace THEN <<>>
    ELSE <<Head(s)>> \o TakeToken(Tail(s))

\* loadIPv6Address: the address after startup, given the file found
loadIPv6Address(f) ==
    IF f.exists /\ TakeToken(SkipSpace(f.data)) # <<>>
    THEN TakeToken(SkipSpace(f.data))
    ELSE DefaultAddress

\* an /update handler; wrote is the content its save has left in the file,
\* sawWrites the number of in-memory writes made when its save started
IdleReq == [pc |-> "idle", hdr |-> <<>>, body |-> <<>>, addr |-> <<>>,
            err |-> FALSE, status |-> 0, wrote |-> <<>>, sawWrites |-> 0]

\* a listener goroutine; acceptErr tells that its last Accept returned an error
IdleLis == [pc |-> "none", port |-> <<>>, iter |-> 0, ipv6Addr |-> <<>>,
            ipv6Port |-> <<>>, conn |-> 0, acceptErr |-> FALSE]

\* an inbound connection; afterErr tells that the Accept before the one that
\* returned it had failed
NoConn == [st |-> "none", lis |-> 0, readAddr |-> <<>>, target |-> <<>>,
           dials |-> 0, answered |-> {}, afterErr |-> FALSE]

\* forward(src, dst): m is the goroutine that runs forward and copies src to
\* dst, g the goroutine of "go io.Copy(src, dst)" that copies dst to src.
\* The client is the peer of src, the destination the peer of dst: sentA are
\* the bytes the client has sent, inA those of them forward has not read yet,
\* gotB those written to the destination; sentB, inB, gotA the other way.
NoRelay == [m |-> "none", g |-> "none", mEnd |-> "", gEnd |-> "",
            chunkM |-> 0, chunkG |-> 0,
            sentA |-> <<>>, inA |-> <<>>, finA |-> FALSE, rstA |-> FALSE, gotA |-> <<>>,
            sentB |-> <<>>, inB |-> <<>>, finB |-> FALSE, rstB |-> FALSE, gotB |-> <<>>,
            srcClosed |-> FALSE, dstClosed |-> FALSE]

\* the /health handler: i is the position of its loop over config.IPv4Ports,
\* probes the calls of checkTunnel it has made: their arguments and whether
\* the dial connected
IdleHealth == [pc |-> "idle", i |-> 0, statuses |-> <<>>, allHealthy |-> TRUE,
               probes |-> <<>>, status |-> 0, body |-> <<>>]

Init ==
    /\ file \in StartFiles
    /\ IPv6Address = loadIPv6Address(file)
    /\ mu = [writer |-> NoTask, held |-> FALSE, readers |-> {}]
    /\ req = [r \in Reqs |-> IdleReq]
    /\ writeLog = <<>>
    /\ mainI = 1
    /\ lis = [k \in Listeners |-> IdleLis]
    /\ conns = [c \in ConnIds |-> NoConn]
    /\ alive = TRUE
    /\ relay = NoRelay
    /\ health = IdleHealth

(***************************************************************************)
(* sync.RWMutex                                                            *)
(***************************************************************************)
\* A read lock that is granted whatever the writers do.
CanRLockAnytime == TRUE

\* RLock blocks while a writer holds the lock or waits for it
CanRLock == mu.writer = NoTask

RLocked(t) == [mu EXCEPT !.readers = @ \cup {t}]

RUnlocked(t) == [mu EXCEPT !.readers = @ \ {t}]

(***************************************************************************)
(* updateIPv6Address, main.go:304-362                                      *)
(***************************************************************************)
IsPrefix(a, b) == Len(a) <= Len(b) /\ SubSeq(b, 1, Len(a)) = a

\* A check that accepts every header starting with the expected value.
UnauthorizedUnlessPrefix(token) == ~IsPrefix(BearerOf(WebhookToken), token)

\* token != fmt.Sprintf("Bearer %s", config.WebhookToken)
Unauthorized(token) == token # BearerOf(WebhookToken)

\* The handler starts and checks the Authorization header (main.go:307-311).
CheckToken(r) ==
    /\ alive /\ req[r].pc = "idle"
    /\ \E h \in Headers :
         req' = [req EXCEPT ![r] =
                   IF Unauthorized(h)
                   THEN [@ EXCEPT !.hdr = h, !.status = 401, !.pc = "done"]
                   ELSE [@ EXCEPT !.hdr = h, !.pc = "read"]]
    /\ UNCHANGED <<IPv6Address, file, mu, writeLog, mainI, lis, conns, alive, relay, health>>

\* io.ReadAll(r.Body) fails (main.go:313-317).
ReadBodyFails(r) ==
    /\ alive /\ req[r].pc = "read"
    /\ req' = [req EXCEPT ![r] = [@ EXCEPT !.status = 500, !.pc = "done"]]
    /\ UNCHANGED <<IPv6Address, file, mu, writeLog, mainI, lis, conns, alive, relay, health>>

\* A handler that uses the last address found.
LastMatch(ipv6Addresses) == ipv6Addresses[Len(ipv6Addresses)]

\* ipv6Address := ipv6Addresses[0], the first match (main.go:331-332)
FirstMatch(ipv6Addresses) == ipv6Addresses[1]

\* A handler that falls back to the built-in default when it finds no address.
ParseStepDefaulting(r, b) ==
    /\ alive /\ req[r].pc = "read"
    /\ LET ipv6Addresses == Matches[b]
       IN  /\ req' = [req EXCEPT ![r] =
                        IF Len(ipv6Addresses) = 0
                        THEN [@ EXCEPT !.body = b, !.status = 400, !.pc = "done"]
                        ELSE [@ EXCEPT !.body = b, !.addr = FirstMatch(ipv6Addresses),
                                       !.pc = "lock"]]
           /\ IPv6Address' = IF Len(ipv6Addresses) = 0 THEN DefaultAddress
                                                       ELSE IPv6Address
    /\ UNCHANGED <<file, mu, writeLog, mainI, lis, conns, alive, relay, health>>

\* The body b is read and searched for addresses; the first match is the
\* address (main.go:313-333).
ParseStep(r, b) ==
    /\ alive /\ req[r].pc = "read"
    /\ LET ipv6Addresses == Matches[b]
       IN  req' = [req EXCEPT ![r] =
                     IF Len(ipv6Addresses) = 0
                     THEN [@ EXCEPT !.body = b, !.status = 400, !.pc = "done"]
                     ELSE [@ EXCEPT !.body = b, !.addr = FirstMatch(ipv6Addresses),
                                    !.pc = "lock"]]
    /\ UNCHANGED <<IPv6Address, file, mu, writeLog, mainI, lis, conns, alive, relay, health>>

ParseBody(r) == \E b \in Bodies : ParseStep(r, b)

\* The same step, the body drawn from the texts of the extraction scenarios.
ParseText(r) == \E b \in Texts : ParseStep(r, b)

\* config.mu.Lock() starts: later RLock calls wait from here on (main.go:347).
LockBegin(r) ==
    /\ alive /\ req[r].pc = "lock"
    /\ mu.writer = NoTask
    /\ mu' = [mu EXCEPT !.writer = ReqTask(r)]
    /\ req' = [req EXCEPT ![r].pc = "lockwait"]
    /\ UNCHANGED <<IPv6Address, file, writeLog, mainI, lis, conns, alive, relay, health>>

\* config.mu.Lock() returns once the readers have left (main.go:347).
LockAcquire(r) ==
    /\ alive /\ req[r].pc = "lockwait"
    /\ mu.readers = {}
    /\ mu' = [mu EXCEPT !.held = TRUE]
    /\ req' = [req EXCEPT ![r].pc = "assign"]
    /\ UNCHANGED <<IPv6Address, file, writeLog, mainI, lis, conns, alive, relay, health>>

\* An assignment of the whole body instead of the address found in it.
AssignedBody(r) == req[r].body

\* The value assigned to config.IPv6Address (main.go:332, 348).
AssignedAddress(r) == req[r].addr

\* config.IPv6Address = ipv6Address (main.go:348)
Assign(r) ==
    /\ alive /\ req[r].pc = "assign"
    /\ IPv6Address' = AssignedAddress(r)
    /\ writeLog' = Append(writeLog, r)
    /\ req' = [req EXCEPT ![r].pc = "unlock"]
    /\ UNCHANGED <<file, mu, mainI, lis, conns, alive, relay, health>>

\* A handler that goes on to the save without releasing the write lock.
UnlockMissing(r) ==
    /\ alive /\ req[r].pc = "unlock"
    /\ req' = [req EXCEPT ![r].pc = "rlock"]
    /\ UNCHANGED <<IPv6Address, file, mu, writeLog, mainI, lis, conns, alive, relay, health>>

\* config.mu.Unlock() (main.go:349)
Unlock(r) ==
    /\ alive /\ req[r].pc = "unlock"
    /\ mu' = [mu EXCEPT !.writer = NoTask, !.held = FALSE]
    /\ req' = [req EXCEPT ![r].pc = "rlock"]
    /\ UNCHANGED <<IPv6Address, file, writeLog, mainI, lis, conns, alive, relay, health>>

(***************************************************************************)
(* saveIPv6Address, main.go:259-275, called at main.go:351                 *)
(***************************************************************************)
\* config.mu.RLock() (main.go:260)
SaveRLock(r) ==
    /\ alive /\ req[r].pc = "rlock"
    /\ CanRLock
    /\ mu' = RLocked(ReqTask(r))
    /\ req' = [req EXCEPT ![r] = [@ EXCEPT !.sawWrites = Len(writeLog), !.pc = "create"]]
    /\ UNCHANGED <<IPv6Address, file, writeLog, mainI, lis, conns, alive, relay, health>>

\* A file opened without truncation.
CreateNoTruncate(r) ==
    /\ alive /\ req[r].pc = "create"
    /\ file' = [file EXCEPT !.exists = TRUE]
    /\ req' = [req EXCEPT ![r].pc = "write"]
    /\ UNCHANGED <<IPv6Address, mu, writeLog, mainI, lis, conns, alive, relay, health>>

\* os.Create(config.FilePath) creates or truncates the file (main.go:263).
Create(r) ==
    /\ alive /\ req[r].pc = "create"
    /\ file' = [file EXCEPT !.exists = TRUE, !.data = <<>>]
    /\ req' = [req EXCEPT ![r].pc = "write"]
    /\ UNCHANGED <<IPv6Address, mu, writeLog, mainI, lis, conns, alive, relay, health>>

\* os.Create fails (main.go:264-266).
CreateFails(r) ==
    /\ alive /\ req[r].pc = "create"
    /\ req' = [req EXCEPT ![r] = [@ EXCEPT !.err = TRUE, !.pc = "return"]]
    /\ UNCHANGED <<IPv6Address, file, mu, writeLog, mainI, lis, conns, alive, relay, health>>

\* A save that writes the address of its own request.
SaveOwnAddress(r) == req[r].addr

\* The text this save writes: the address in memory now (main.go:269).
SaveData(r) == IPv6Address

\* A write of data at offset 0 of a file holding content.
WriteAt0(content, data) ==
    data \o SubSeq(content, Len(data) + 1, Len(content))

\* A save that ends the address with a line break.
WriteStringLine(r) ==
    /\ alive /\ req[r].pc = "write"
    /\ file' = [file EXCEPT !.data = WriteAt0(@, SaveData(r) \o <<"\n">>),
                            !.history = @ \cup {WriteAt0(file.data, SaveData(r) \o <<"\n">>)}]
    /\ req' = [req EXCEPT ![r] = [@ EXCEPT !.wrote = file'.data, !.pc = "return"]]
    /\ UNCHANGED <<IPv6Address, mu, writeLog, mainI, lis, conns, alive, relay, health>>

\* file.WriteString(config.IPv6Address) (main.go:269)
WriteString(r) ==
    /\ alive /\ req[r].pc = "write"
    /\ file' = [file EXCEPT !.data = WriteAt0(@, SaveData(r)),
                            !.history = @ \cup {WriteAt0(file.data, SaveData(r))}]
    /\ req' = [req EXCEPT ![r] = [@ EXCEPT !.wrote = file'.data, !.pc = "return"]]
    /\ UNCHANGED <<IPv6Address, mu, writeLog, mainI, lis, conns, alive, relay, health>>

\* file.WriteString fails after writing n < len bytes (main.go:270-272).
WriteStringFails(r) ==
    /\ alive /\ req[r].pc = "write"
    /\ \E n \in 0..(Len(SaveData(r)) - 1) :
         file' = [file EXCEPT !.data = WriteAt0(@, SubSeq(SaveData(r), 1, n))]
    /\ req' = [req EXCEPT ![r] = [@ EXCEPT !.err = TRUE, !.pc = "return"]]
    /\ UNCHANGED <<IPv6Address, mu, writeLog, mainI, lis, conns, alive, relay, health>>

\* The deferred file.Close() and config.mu.RUnlock() (main.go:261, 267).
SaveReturn(r) ==
    /\ alive /\ req[r].pc = "return"
    /\ mu' = RUnlocked(ReqTask(r))
    /\ req' = [req EXCEPT ![r].pc = "respond"]
    /\ UNCHANGED <<IPv6Address, file, writeLog, mainI, lis, conns, alive, relay, health>>

\* A failed save that puts the built-in default back.
AddressRolledBack(r) == DefaultAddress

\* The address in memory after a failed save: it stays (main.go:352-355).
AddressAfterSaveError(r) == IPv6Address

\* The response: 500 after a failed save, else 200 (main.go:352-360).
Respond(r) ==
    /\ alive /\ req[r].pc = "respond"
    /\ req' = [req EXCEPT ![r] =
                 [@ EXCEPT !.status = IF req[r].err THEN 500 ELSE 200, !.pc = "done"]]
    /\ IPv6Address' = IF req[r].err THEN AddressAfterSaveError(r) ELSE IPv6Address
    /\ UNCHANGED <<file, mu, writeLog, mainI, lis, conns, alive, relay, health>>

Update(r) ==
    \/ CheckToken(r) \/ ReadBodyFails(r) \/ ParseBody(r)
    \/ LockBegin(r) \/ LockAcquire(r) \/ Assign(r) \/ Unlock(r)
    \/ SaveRLock(r) \/ Create(r) \/ CreateFails(r)
    \/ WriteString(r) \/ WriteStringFails(r) \/ SaveReturn(r) \/ Respond(r)

(***************************************************************************)
(* main: the loop that starts one listener per source port and the         *)
(* listener goroutines, main.go:461-494                                    *)
(***************************************************************************)
\* go func(port string) {...}(port), for the next i, port of the range loop
SpawnListener ==
    /\ alive /\ mainI <= NumPorts
    /\ lis' = [lis EXCEPT ![mainI] =
                 [@ EXCEPT !.pc = "listen", !.port = IPv4Ports[mainI], !.iter = mainI]]
    /\ mainI' = mainI + 1
    /\ UNCHANGED <<IPv6Address, file, mu, req, writeLog, conns, alive, relay, health>>

\* net.Listen succeeds (main.go:463-469).
Listen(k) ==
    /\ alive /\ lis[k].pc = "listen"
    /\ lis' = [lis EXCEPT ![k].pc = "accept"]
    /\ UNCHANGED <<IPv6Address, file, mu, req, writeLog, mainI, conns, alive, relay, health>>

\* net.Listen fails: log.Fatalf ends the process, whose memory is gone; the
\* file stays (main.go:464-466).
ListenFails(k) ==
    /\ alive /\ lis[k].pc = "listen"
    /\ alive' = FALSE
    /\ IPv6Address' = <<>>
    /\ mu' = [writer |-> NoTask, held |-> FALSE, readers |-> {}]
    /\ req' = [r \in Reqs |-> IdleReq]
    /\ writeLog' = <<>>
    /\ mainI' = 1
    /\ lis' = [j \in Listeners |-> IdleLis]
    /\ conns' = [c \in DOMAIN conns |-> NoConn]
    /\ health' = IdleHealth
    /\ UNCHANGED <<file, relay>>

FreeConns == {c \in DOMAIN conns : conns[c].st = "none"}

Answered == {r \in Reqs : req[r].pc = "done"}

\* listener.Accept() returns a connection (main.go:472).
Accept(k) ==
    /\ alive /\ lis[k].pc = "accept"
    /\ FreeConns # {}
    /\ LET c == CHOOSE c \in FreeConns : \A d \in FreeConns : c <= d
       IN  /\ conns' = [conns EXCEPT ![c] =
                          [@ EXCEPT !.st = "accepted", !.lis = k, !.answered = Answered,
                                    !.afterErr = lis[k].acceptErr]]
           /\ lis' = [lis EXCEPT ![k] = [@ EXCEPT !.conn = c, !.acceptErr = FALSE,
                                                  !.pc = "rlock"]]
    /\ UNCHANGED <<IPv6Address, file, mu, req, writeLog, mainI, alive, relay, health>>

\* An accept error that ends the listener goroutine.
AcceptFailsReturns(k) ==
    /\ alive /\ lis[k].pc = "accept"
    /\ lis' = [lis EXCEPT ![k] = [@ EXCEPT !.acceptErr = TRUE, !.pc = "returned"]]
    /\ UNCHANGED <<IPv6Address, file, mu, req, writeLog, mainI, conns, alive, relay, health>>

\* listener.Accept() fails: logged, the loop continues with the next Accept
\* (main.go:473-476).
AcceptFails(k) ==
    /\ alive /\ lis[k].pc = "accept"
    /\ lis' = [lis EXCEPT ![k].acceptErr = TRUE]
    /\ UNCHANGED <<IPv6Address, file, mu, req, writeLog, mainI, conns, alive, relay, health>>

\* config.mu.RLock() (main.go:478)
LisRLock(k) ==
    /\ alive /\ lis[k].pc = "rlock"
    /\ CanRLock
    /\ mu' = RLocked(LisTask(k))
    /\ lis' = [lis EXCEPT ![k].pc = "read"]
    /\ UNCHANGED <<IPv6Address, file, req, writeLog, mainI, conns, alive, relay, health>>

\* The address a listener reads (main.go:479).
ReadAddress(k) == IPv6Address

\* One i shared by all iterations: what the loop has left in it.
SharedLoopIndex(k) == IF mainI > NumPorts THEN NumPorts ELSE mainI

\* The i of config.IPv6Ports[i] in listener k: each iteration of the range loop
\* has its own i, the one the closure started in that iteration refers to
\* (main.go:461-462, 481).
LoopIndex(k) == lis[k].iter

\* ipv6Addr := config.IPv6Address; ipv6Port := config.IPv6Ports[i] (main.go:479-481)
LisRead(k) ==
    /\ alive /\ lis[k].pc = "read"
    /\ lis' = [lis EXCEPT ![k] = [@ EXCEPT !.ipv6Addr = ReadAddress(k),
                                           !.ipv6Port = IPv6Ports[LoopIndex(k)],
                                           !.pc = "runlock"]]
    /\ conns' = [conns EXCEPT ![lis[k].conn].readAddr = IPv6Address]
    /\ UNCHANGED <<IPv6Address, file, mu, req, writeLog, mainI, alive, relay, health>>

\* config.mu.RUnlock() (main.go:482)
LisRUnlock(k) ==
    /\ alive /\ lis[k].pc = "runlock"
    /\ mu' = RUnlocked(LisTask(k))
    /\ lis' = [lis EXCEPT ![k].pc = "dial"]
    /\ UNCHANGED <<IPv6Address, file, req, writeLog, mainI, conns, alive, relay, health>>

\* fmt.Sprintf("[%s]:%s", ipv6Addr, ipv6Port)
HostPort(addr, port) == <<"[">> \o addr \o <<"]", ":">> \o port

\* A dial that reads the address again instead of using ipv6Addr.
DialTargetReread(k) == HostPort(IPv6Address, lis[k].ipv6Port)

\* The address net.Dial is given in listener k (main.go:484).
DialTarget(k) == HostPort(lis[k].ipv6Addr, lis[k].ipv6Port)

\* A relay run by the listener itself: forward(srcConn, destConn) without go.
DialOKInline(k) ==
    /\ alive /\ lis[k].pc = "dial"
    /\ conns' = [conns EXCEPT ![lis[k].conn] =
                   [@ EXCEPT !.st = "relaying", !.target = DialTarget(k),
                             !.dials = @ + 1]]
    /\ lis' = [lis EXCEPT ![k] = [@ EXCEPT !.ipv6Addr = <<>>, !.ipv6Port = <<>>,
                                           !.pc = "forward"]]
    /\ UNCHANGED <<IPv6Address, file, mu, req, writeLog, mainI, alive, relay, health>>

\* net.Dial succeeds and the relay is started: go forward(srcConn, destConn)
\* (main.go:484, 491).
DialOK(k) ==
    /\ alive /\ lis[k].pc = "dial"
    /\ conns' = [conns EXCEPT ![lis[k].conn] =
                   [@ EXCEPT !.st = "relaying", !.target = DialTarget(k),
                             !.dials = @ + 1]]
    /\ lis' = [lis EXCEPT ![k] = [@ EXCEPT !.conn = 0, !.ipv6Addr = <<>>,
                                           !.ipv6Port = <<>>, !.pc = "accept"]]
    /\ UNCHANGED <<IPv6Address, file, mu, req, writeLog, mainI, alive, relay, health>>

\* A failed dial after which the inbound connection is not closed.
DialFailsLeaves(k) ==
    /\ alive /\ lis[k].pc = "dial"
    /\ conns' = [conns EXCEPT ![lis[k].conn] =
                   [@ EXCEPT !.target = DialTarget(k), !.dials = @ + 1]]
    /\ lis' = [lis EXCEPT ![k] = [@ EXCEPT !.conn = 0, !.ipv6Addr = <<>>,
                                           !.ipv6Port = <<>>, !.pc = "accept"]]
    /\ UNCHANGED <<IPv6Address, file, mu, req, writeLog, mainI, alive, relay, health>>

\* net.Dial fails: srcConn.Close(), the loop continues (main.go:485-489).
DialFails(k) ==
    /\ alive /\ lis[k].pc = "dial"
    /\ conns' = [conns EXCEPT ![lis[k].conn] =
                   [@ EXCEPT !.st = "closed", !.target = DialTarget(k),
                             !.dials = @ + 1]]
    /\ lis' = [lis EXCEPT ![k] = [@ EXCEPT !.conn = 0, !.ipv6Addr = <<>>,
                                           !.ipv6Port = <<>>, !.pc = "accept"]]
    /\ UNCHANGED <<IPv6Address, file, mu, req, writeLog, mainI, alive, relay, health>>

Listener(k) ==
    \/ Listen(k) \/ ListenFails(k) \/ Accept(k) \/ AcceptFails(k)
    \/ LisRLock(k) \/ LisRead(k) \/ LisRUnlock(k) \/ DialOK(k) \/ DialFails(k)

Next ==
    \/ \E r \in Reqs : Update(r)
    \/ SpawnListener
    \/ \E k \in Listeners : Listener(k)

Spec == Init /\ [][Next]_vars

\* The update handlers alone: concurrent /update requests and the file.
UpdateNext == \E r \in Reqs : Update(r)

UpdateSpec == Init /\ [][UpdateNext]_vars

(***************************************************************************)
(* healthCheckHandler and checkTunnel, main.go:365-409                     *)
(***************************************************************************)
HealthTask == <<"health", 0>>

\* A handler that takes the read lock for the time of one probe only, and so
\* starts without it.
HealthNoLock ==
    /\ alive /\ health.pc = "idle"
    /\ health' = [health EXCEPT !.pc = "loop", !.i = 1, !.statuses = <<>>,
                                !.allHealthy = TRUE]
    /\ UNCHANGED <<IPv6Address, file, mu, req, writeLog, mainI, lis, conns, alive, relay>>

\* config.mu.RLock(), held until the handler returns (main.go:377-381)
HealthRLock ==
    /\ alive /\ health.pc = "idle"
    /\ CanRLock
    /\ mu' = RLocked(HealthTask)
    /\ health' = [health EXCEPT !.pc = "loop", !.i = 1, !.statuses = <<>>,
                                !.allHealthy = TRUE]
    /\ UNCHANGED <<IPv6Address, file, req, writeLog, mainI, lis, conns, alive, relay>>

\* checkTunnel: true when net.DialTimeout connects, false with its error
\* otherwise (main.go:365-372)
checkTunnel(connects) == IF ~connects THEN FALSE ELSE TRUE

\* A report that puts each entry before the earlier ones.
Prepended(statuses, status) == <<status>> \o statuses

\* statuses = append(statuses, status) (main.go:391)
Appended(statuses, status) == Append(statuses, status)

\* A flag that the last probe alone decides.
LastProbeDecides(allHealthy, ipv6Alive) == ipv6Alive

\* allHealthy after a probe: false once a probe has failed (main.go:393-396)
StillHealthy(allHealthy, ipv6Alive) == IF ~ipv6Alive THEN FALSE ELSE allHealthy

\* One iteration of the loop over config.IPv4Ports: the probe of mapping i
\* and its entry in the report (main.go:383-397).
HealthProbe ==
    /\ alive /\ health.pc = "loop" /\ health.i <= Len(IPv4Ports)
    /\ \E connects \in BOOLEAN :
         LET ipv4Port == IPv4Ports[health.i]
             ipv6Port == IPv6Ports[health.i]
             ipv6Alive == checkTunnel(connects)
             status == [ipv4_port |-> ipv4Port, ipv6_port |-> ipv6Port,
                        ipv6_alive |-> ipv6Alive]
         IN  health' = [health EXCEPT
                          !.statuses = Appended(@, status),
                          !.allHealthy = StillHealthy(@, ipv6Alive),
                          !.probes = Append(@, [ipv6Addr |-> IPv6Address, port |-> ipv6Port,
                                                ok |-> connects]),
                          !.i = @ + 1]
    /\ UNCHANGED <<IPv6Address, file, mu, req, writeLog, mainI, lis, conns, alive, relay>>

\* A handler that loads the address from the file again before it answers.
HealthRespondReloading ==
    /\ alive /\ health.pc = "loop" /\ health.i > Len(IPv4Ports)
    /\ health' = [health EXCEPT !.status = IF health.allHealthy THEN 200 ELSE 500,
                                !.body = health.statuses, !.pc = "return"]
    /\ IPv6Address' = loadIPv6Address(file)
    /\ UNCHANGED <<file, mu, req, writeLog, mainI, lis, conns, alive, relay>>

\* The loop has ended: the status code and the report (main.go:399-407).
HealthRespond ==
    /\ alive /\ health.pc = "loop" /\ health.i > Len(IPv4Ports)
    /\ health' = [health EXCEPT !.status = IF health.allHealthy THEN 200 ELSE 500,
                                !.body = health.statuses, !.pc = "return"]
    /\ UNCHANGED <<IPv6Address, file, mu, req, writeLog, mainI, lis, conns, alive, relay>>

\* The deferred config.mu.RUnlock() (main.go:378).
HealthReturn ==
    /\ alive /\ health.pc = "return"
    /\ mu' = RUnlocked(HealthTask)
    /\ health' = [health EXCEPT !.pc = "done"]
    /\ UNCHANGED <<IPv6Address, file, req, writeLog, mainI, lis, conns, alive, relay>>

Health == HealthRLock \/ HealthProbe \/ HealthRespond \/ HealthReturn

\* One /health request and one /update request, served concurrently.
HealthNext == Health \/ Update(1)

HealthSpec == Init /\ [][HealthNext]_vars

\* One /update request, one /health request and the listeners, all at once.
ServeNext ==
    \/ Update(1)
    \/ Health
    \/ SpawnListener
    \/ \E k \in Listeners : Listener(k)

ServeSpec == Init /\ [][ServeNext]_vars

\* The steps a handler takes by itself once its request has arrived, and
\* those of a listener once Accept has returned a connection.
UpdateSteps(r) ==
    \/ ReadBodyFails(r) \/ ParseBody(r)
    \/ LockBegin(r) \/ LockAcquire(r) \/ Assign(r) \/ Unlock(r)
    \/ SaveRLock(r) \/ Create(r) \/ CreateFails(r)
    \/ WriteString(r) \/ WriteStringFails(r) \/ SaveReturn(r) \/ Respond(r)

HealthSteps == HealthProbe \/ HealthRespond \/ HealthReturn

ConnectionSteps(k) ==
    LisRLock(k) \/ LisRead(k) \/ LisRUnlock(k) \/ DialOK(k) \/ DialFails(k)

\* The same tasks under fair scheduling: a goroutine that can take a step
\* takes it, and file operations, probes and dials return. Requests and
\* connections need not arrive.
ProgressSpec ==
    /\ Init /\ [][ServeNext]_vars
    /\ \A r \in Reqs : WF_vars(UpdateSteps(r))
    /\ WF_vars(HealthSteps)
    /\ \A k \in Listeners : WF_vars(ConnectionSteps(k))

\* connections accepted in a run of the listeners alone
TunnelIds == 1..(MaxConns + 2)

\* The listeners alone, no update arriving: more connections are followed.
ListenInit ==
    /\ file \in StartFiles
    /\ IPv6Address = loadIPv6Address(file)
    /\ mu = [writer |-> NoTask, held |-> FALSE, readers |-> {}]
    /\ req = [r \in Reqs |-> IdleReq]
    /\ writeLog = <<>>
    /\ mainI = 1
    /\ lis = [k \in Listeners |-> IdleLis]
    /\ conns = [c \in TunnelIds |-> NoConn]
    /\ alive = TRUE
    /\ relay = NoRelay
    /\ health = IdleHealth

ListenNext == SpawnListener \/ \E k \in Listeners : Listener(k)

ListenSpec == ListenInit /\ [][ListenNext]_vars

\* The same step, the body holding two addresses or a malformed run.
ParseScan(r) == \E b \in ScanTexts : ParseStep(r, b)

\* One /update request whose body holds two addresses or a malformed run.
ScanNext == ParseScan(1) \/ Update(1)

ScanSpec == Init /\ [][ScanNext]_vars

\* One /update request whose body is any text of the extraction scenarios.
ExtractNext == ParseText(1) \/ Update(1)

ExtractSpec == Init /\ [][ExtractNext]_vars

(***************************************************************************)
(* forward, main.go:249-257                                                *)
(***************************************************************************)
\* bytes each peer sends in a run
MaxBytes == 2

\* the n-th byte the client sends, and the n-th byte the destination sends
ByteA(n) == n

ByteB(n) == 10 + n

NotTunnel == <<IPv6Address, file, mu, req, writeLog, mainI, lis, conns, alive, health>>

\* go io.Copy(src, dst) (main.go:255)
Go ==
    /\ relay.m = "go"
    /\ relay' = [relay EXCEPT !.m = "copy", !.g = "copy"]
    /\ UNCHANGED NotTunnel

\* A copy that puts each chunk before those written earlier.
WrittenFirst(got, chunk) == <<chunk>> \o got

\* The bytes delivered once a chunk is written after those written before.
Written(got, chunk) == Append(got, chunk)

\* io.Copy(dst, src) reads from src: a byte, end-of-stream after the client's
\* FIN, or an error after a reset; it waits while there is none of them
\* (main.go:256).
MRead ==
    /\ relay.m = "copy"
    /\ IF relay.srcClosed \/ relay.rstA
       THEN relay' = [relay EXCEPT !.m = "closeDst", !.mEnd = "err"]
       ELSE IF relay.inA # <<>>
       THEN relay' = [relay EXCEPT !.m = "write", !.chunkM = Head(relay.inA),
                                   !.inA = Tail(relay.inA)]
       ELSE /\ relay.finA
            /\ relay' = [relay EXCEPT !.m = "closeDst", !.mEnd = "eof"]
    /\ UNCHANGED NotTunnel

\* io.Copy(dst, src) writes to dst what it has read (main.go:256).
MWrite ==
    /\ relay.m = "write"
    /\ IF relay.dstClosed \/ relay.rstB
       THEN relay' = [relay EXCEPT !.m = "closeDst", !.mEnd = "err", !.chunkM = 0]
       ELSE relay' = [relay EXCEPT !.m = "copy", !.chunkM = 0,
                                   !.gotB = Written(relay.gotB, relay.chunkM)]
    /\ UNCHANGED NotTunnel

\* forward returns: the deferred dst.Close() (main.go:252)
CloseDst ==
    /\ relay.m = "closeDst"
    /\ relay' = [relay EXCEPT !.m = "closeSrc", !.dstClosed = TRUE]
    /\ UNCHANGED NotTunnel

\* then the deferred src.Close() (main.go:251)
CloseSrc ==
    /\ relay.m = "closeSrc"
    /\ relay' = [relay EXCEPT !.m = "done", !.srcClosed = TRUE]
    /\ UNCHANGED NotTunnel

\* io.Copy(src, dst) reads from dst; nothing follows its return (main.go:255).
GRead ==
    /\ relay.g = "copy"
    /\ IF relay.dstClosed \/ relay.rstB
       THEN relay' = [relay EXCEPT !.g = "done", !.gEnd = "err"]
       ELSE IF relay.inB # <<>>
       THEN relay' = [relay EXCEPT !.g = "write", !.chunkG = Head(relay.inB),
                                   !.inB = Tail(relay.inB)]
       ELSE /\ relay.finB
            /\ relay' = [relay EXCEPT !.g = "done", !.gEnd = "eof"]
    /\ UNCHANGED NotTunnel

\* io.Copy(src, dst) writes to src what it has read (main.go:255).
GWrite ==
    /\ relay.g = "write"
    /\ IF relay.srcClosed \/ relay.rstA
       THEN relay' = [relay EXCEPT !.g = "done", !.gEnd = "err", !.chunkG = 0]
       ELSE relay' = [relay EXCEPT !.g = "copy", !.chunkG = 0,
                                   !.gotA = Written(relay.gotA, relay.chunkG)]
    /\ UNCHANGED NotTunnel

\* The steps of the goroutine that runs forward, and of the one it starts.
ForwardSteps == Go \/ MRead \/ MWrite \/ CloseDst \/ CloseSrc

CopyBackSteps == GRead \/ GWrite

\* The client: it sends a byte, ends its sending side, or resets.
ClientSend ==
    /\ relay.m # "none"
    /\ ~relay.finA /\ ~relay.rstA /\ ~relay.srcClosed
    /\ Len(relay.sentA) < MaxBytes
    /\ relay' = [relay EXCEPT !.sentA = Append(@, ByteA(Len(@) + 1)),
                              !.inA = Append(@, ByteA(Len(relay.sentA) + 1))]
    /\ UNCHANGED NotTunnel

ClientFin ==
    /\ relay.m # "none"
    /\ ~relay.finA /\ ~relay.rstA /\ ~relay.srcClosed
    /\ relay' = [relay EXCEPT !.finA = TRUE]
    /\ UNCHANGED NotTunnel

ClientReset ==
    /\ relay.m # "none"
    /\ ~relay.rstA /\ ~relay.srcClosed
    /\ relay' = [relay EXCEPT !.rstA = TRUE]
    /\ UNCHANGED NotTunnel

\* The destination, likewise.
DestSend ==
    /\ relay.m # "none"
    /\ ~relay.finB /\ ~relay.rstB /\ ~relay.dstClosed
    /\ Len(relay.sentB) < MaxBytes
    /\ relay' = [relay EXCEPT !.sentB = Append(@, ByteB(Len(@) + 1)),
                              !.inB = Append(@, ByteB(Len(relay.sentB) + 1))]
    /\ UNCHANGED NotTunnel

DestFin ==
    /\ relay.m # "none"
    /\ ~relay.finB /\ ~relay.rstB /\ ~relay.dstClosed
    /\ relay' = [relay EXCEPT !.finB = TRUE]
    /\ UNCHANGED NotTunnel

DestReset ==
    /\ relay.m # "none"
    /\ ~relay.rstB /\ ~relay.dstClosed
    /\ relay' = [relay EXCEPT !.rstB = TRUE]
    /\ UNCHANGED NotTunnel

Peers == ClientSend \/ ClientFin \/ ClientReset \/ DestSend \/ DestFin \/ DestReset

\* The state in which the first listener has started go forward(srcConn,
\* destConn) for its first connection, no update having arrived.
RelayInit ==
    /\ file = [exists |-> FALSE, data |-> <<>>, history |-> {}]
    /\ IPv6Address = DefaultAddress
    /\ mu = [writer |-> NoTask, held |-> FALSE, readers |-> {}]
    /\ req = [r \in Reqs |-> IdleReq]
    /\ writeLog = <<>>
    /\ mainI = 2
    /\ lis = [k \in Listeners |->
                IF k = 1
                THEN [IdleLis EXCEPT !.pc = "accept", !.port = IPv4Ports[1], !.iter = 1]
                ELSE IdleLis]
    /\ conns = [c \in ConnIds |->
                  IF c = 1
                  THEN [st |-> "relaying", lis |-> 1, readAddr |-> DefaultAddress,
                        target |-> HostPort(DefaultAddress, IPv6Ports[1]),
                        dials |-> 1, answered |-> {}, afterErr |-> FALSE]
                  ELSE NoConn]
    /\ alive = TRUE
    /\ relay = [NoRelay EXCEPT !.m = "go"]
    /\ health = IdleHealth

RelayNext == ForwardSteps \/ CopyBackSteps \/ Peers

\* One relay and its two peers. Each goroutine of the relay runs whenever it
\* can (the Go scheduler starves no runnable goroutine); the peers need not
\* do anything.
RelaySpec ==
    RelayInit /\ [][RelayNext]_vars /\ WF_vars(ForwardSteps) /\ WF_vars(CopyBackSteps)

(***************************************************************************)
(* Claims                                                                  *)
(***************************************************************************)
\* the request r has taken a step
Stepped(r) == req'[r] # req[r] /\ alive'

\* C1: a request whose Authorization header is not exactly "Bearer " followed
\* by the token is answered 401 by its first step, before the body is read,
\* and that step changes neither the address in memory nor the file.
C1_UnauthorizedChangesNothing ==
    [][\A r \in Reqs :
         (Stepped(r) /\ req'[r].hdr # BearerOf(WebhookToken)) =>
             /\ req[r].pc = "idle"
             /\ req'[r].pc = "done" /\ req'[r].status = 401
             /\ req'[r].body = <<>> /\ req'[r].addr = <<>>
             /\ IPv6Address' = IPv6Address
             /\ file' = file]_vars

\* C1 witness: a header that extends the expected value and one that is a
\* prefix of it were both answered 401.
C1_Witness ==
    \E r, q \in Reqs :
        /\ req[r].status = 401 /\ req[q].status = 401
        /\ req[r].hdr = BearerOf(WebhookToken) \o <<"x">>
        /\ IsPrefix(req[q].hdr, BearerOf(WebhookToken)) /\ req[q].hdr # <<>>

\* C2: after an authorized update whose body embeds a valid IPv6 literal in
\* prose, the address found and stored is that whole literal; a body without
\* address is answered 400.
C2_ExtractsWholeLiteral ==
    \A r \in Reqs :
        /\ \A p \in Prefixes, l \in Literals, x \in Suffixes :
              (req[r].pc \notin {"idle", "read"} /\ req[r].body = p \o l \o x) =>
                  /\ req[r].addr = l
                  /\ req[r].pc \notin {"lock", "lockwait", "assign"}
                      => r \in {writeLog[i] : i \in 1..Len(writeLog)}
                  /\ (writeLog # <<>> /\ writeLog[Len(writeLog)] = r) => IPv6Address = l
        /\ (req[r].pc = "done" /\ req[r].hdr = BearerOf(WebhookToken)
             /\ req[r].body \in NoAddressTexts /\ req[r].status # 500)
                => req[r].status = 400 /\ req[r].addr = <<>>

\* the requests that have written the address in memory, and their order
Writers == {writeLog[i] : i \in 1..Len(writeLog)}

Pos(r) == CHOOSE i \in 1..Len(writeLog) : writeLog[i] = r

LastWriter == writeLog[Len(writeLog)]

\* the addresses written in memory by r and by the updates that wrote after it
AddrsSince(r) == {req[writeLog[i]].addr : i \in Pos(r)..Len(writeLog)}

\* C3: a connection accepted by the listener on IPv4Ports[i] is dialed exactly
\* once, to [address read for it]:IPv6Ports[i].
C3_DialsPortAtSameIndex ==
    \A c \in ConnIds :
        /\ conns[c].st = "accepted" =>
              conns[c].dials = 0 /\ lis[conns[c].lis].conn = c
        /\ conns[c].st \in {"relaying", "closed"} =>
              /\ conns[c].dials = 1
              /\ \E i \in 1..NumPorts :
                    /\ lis[conns[c].lis].port = IPv4Ports[i]
                    /\ conns[c].target = HostPort(conns[c].readAddr, IPv6Ports[i])

\* C3 witness: after the loop that starts the listeners has ended, a
\* connection of the first listener is relayed to the first destination port.
C3_Witness ==
    \E c \in ConnIds :
        /\ mainI > NumPorts /\ NumPorts > 1
        /\ conns[c].st = "relaying" /\ lis[conns[c].lis].port = IPv4Ports[1]
        /\ conns[c].target = HostPort(IPv6Address, IPv6Ports[1])

\* C6: the destination of a connection is the address and port read for it
\* under the read lock, and no later step changes the destination of a
\* connection that is dialed.
C6_DestinationFixedAtDial ==
    [][alive' =>
         \A c \in ConnIds :
            /\ (conns[c].st = "accepted" /\ conns'[c].st # "accepted") =>
                  conns'[c].target =
                      HostPort(conns[c].readAddr, lis[conns[c].lis].ipv6Port)
            /\ conns[c].st = "relaying" => conns'[c].target = conns[c].target]_vars

\* C6 witness: an update was answered 200 after a connection was accepted, and
\* the connection is relayed to the address read before that update.
C6_Witness ==
    \E c \in ConnIds, r \in Reqs :
        /\ conns[c].st = "relaying" /\ r \notin conns[c].answered
        /\ req[r].status = 200 /\ IPv6Address = req[r].addr
        /\ conns[c].readAddr # IPv6Address
        /\ conns[c].target = HostPort(conns[c].readAddr, IPv6Ports[conns[c].lis])

C9_FileIsOneAddress ==
    (writeLog # <<>> /\ \A r \in Writers : req[r].status = 200) =>
        file.data \in {req[r].addr : r \in Writers}

\* C9 witness: two updates with different addresses were answered 200 and the
\* save of the first wrote the address of the second.
C9_Witness ==
    /\ Len(writeLog) >= 2
    /\ \A r \in Writers : req[r].status = 200
    /\ req[writeLog[1]].addr # req[writeLog[2]].addr
    /\ req[writeLog[1]].wrote = req[writeLog[2]].addr

\* C10: an update whose save failed is answered 500 and the address it wrote
\* in memory stays: the answer does not change it, and while no other update
\* has written since, the address in memory and the address a listener reads
\* are this update's.
C10_FailedSaveKeepsAddress ==
    [][alive' =>
         \A r \in Reqs :
            /\ (req[r].pc = "respond" /\ req'[r].pc = "done" /\ req[r].err) =>
                  /\ req'[r].status = 500
                  /\ r \in Writers
                  /\ IPv6Address' = IPv6Address
            /\ (req'[r].status = 500 /\ req'[r].err /\ LastWriter' = r) =>
                  /\ IPv6Address' = req'[r].addr
                  /\ \A k \in Listeners :
                        (lis[k].pc = "read" /\ lis'[k].pc = "runlock") =>
                            lis'[k].ipv6Addr = req[r].addr]_vars

\* C10 witness: an update was answered 500 after a failed save, the file does
\* not hold its address, and a connection accepted afterwards is relayed to it.
C10_Witness ==
    \E r \in Reqs, c \in ConnIds :
        /\ req[r].status = 500 /\ req[r].err
        /\ file.data # req[r].addr
        /\ conns[c].st = "relaying" /\ r \in conns[c].answered
        /\ conns[c].target = HostPort(req[r].addr, IPv6Ports[conns[c].lis])

RelayEnded == relay.m = "done" /\ relay.g = "done"

\* C4: once either copy direction has finished, both connections are
\* eventually closed and both directions have ended.
C4_EitherEndClosesBoth ==
    (relay.mEnd # "" \/ relay.gEnd # "")
        ~> (relay.srcClosed /\ relay.dstClosed /\ RelayEnded)

\* C5, as claimed: when the relay has ended and no peer has reset its
\* connection, each peer has received, unmodified and in order, every byte the
\* other peer sent.
C5_EveryByteDelivered ==
    (RelayEnded /\ ~relay.rstA /\ ~relay.rstB) =>
        relay.gotB = relay.sentA /\ relay.gotA = relay.sentB

\* C5, amended: what a peer has received is at any time the beginning of what
\* the other peer sent, unmodified and in order, and it is all of it when the
\* copy in that direction ended at end-of-stream.
C5_DeliveredInOrder ==
    /\ IsPrefix(relay.gotB, relay.sentA)
    /\ IsPrefix(relay.gotA, relay.sentB)
    /\ relay.mEnd = "eof" => relay.gotB = relay.sentA
    /\ relay.gEnd = "eof" => relay.gotA = relay.sentB

\* C5 witness: the client sent its bytes and ended its sending side, the
\* destination received them all, and the relay ended without delivering the
\* bytes the destination had sent.
C5_Witness ==
    /\ RelayEnded /\ relay.mEnd = "eof" /\ ~relay.rstA /\ ~relay.rstB
    /\ Len(relay.sentA) = MaxBytes /\ relay.gotB = relay.sentA
    /\ Len(relay.sentB) = MaxBytes /\ relay.gotA = <<>>

\* C11: an authorized request whose body, once read, holds no IPv6 address is
\* answered 400 by that step, which changes neither the address in memory nor
\* the file; such a request never writes the address.
C11_NoAddressChangesNothing ==
    [][\A r \in Reqs :
         (alive' /\ req[r].pc = "read" /\ req'[r].pc # "read"
            /\ req'[r].status # 500 /\ req'[r].body \in NoAddressTexts) =>
             /\ req[r].hdr = BearerOf(WebhookToken)
             /\ req'[r].status = 400 /\ req'[r].pc = "done"
             /\ req'[r].addr = <<>> /\ r \notin Writers'
             /\ IPv6Address' = IPv6Address
             /\ file' = file]_vars

\* C11 witness: a body without address was answered 400 while the address
\* loaded from the file at startup is still in memory and in the file.
C11_Witness ==
    \E r \in Reqs :
        /\ req[r].status = 400 /\ req[r].body = BodyNone
        /\ IPv6Address = SavedAddress /\ file.data = SavedAddress

\* the listener k is handling the inbound connection c
Handling(k, c) ==
    lis[k].conn = c /\ lis[k].pc \in {"rlock", "read", "runlock", "dial"}

\* C12: a failed Accept leaves the listener in its loop, at the next Accept:
\* the step starts no dial and no relay and touches no connection, and a
\* listener whose last Accept failed accepts the next connection that arrives.
C12_AcceptErrorKeepsListening ==
    /\ [](\A k \in Listeners :
            lis[k].acceptErr =>
                /\ lis[k].pc = "accept" /\ lis[k].conn = 0
                /\ (alive /\ FreeConns # {}) => ENABLED Accept(k))
    /\ [][\A k \in Listeners :
            (alive' /\ lis'[k].acceptErr /\ ~lis[k].acceptErr) =>
                /\ lis[k].pc = "accept" /\ lis'[k].pc = "accept"
                /\ conns' = conns /\ relay' = relay]_vars

\* C12 witness: a connection accepted right after a failed Accept of its
\* listener is relayed.
C12_Witness ==
    \E c \in DOMAIN conns :
        conns[c].afterErr /\ conns[c].st = "relaying" /\ conns[c].dials = 1

\* C13: a failed dial closes the inbound connection, the connection is dialed
\* once and never again and never relayed, and the listener is back at Accept;
\* every accepted connection is being handled by its listener, is owned by a
\* relay, or is closed.
C13_DialErrorClosesInbound ==
    /\ [](\A c \in DOMAIN conns :
            /\ conns[c].st = "accepted" => Handling(conns[c].lis, c)
            /\ conns[c].st \in {"relaying", "closed"} =>
                  conns[c].dials = 1 /\ \A k \in Listeners : lis[k].conn # c)
    /\ [][alive' =>
            \A c \in DOMAIN conns :
               /\ (conns[c].st = "accepted" /\ conns'[c].dials > conns[c].dials
                      /\ conns'[c].st # "relaying") =>
                     /\ conns'[c].st = "closed"
                     /\ lis'[conns[c].lis].pc = "accept"
                     /\ relay' = relay
               /\ conns[c].st = "closed" => conns'[c] = conns[c]]_vars

\* C13 witness: a dial failed, its connection is closed, and the same listener
\* relays a connection it accepted afterwards.
C13_Witness ==
    \E c, d \in DOMAIN conns :
        /\ c < d /\ conns[c].lis = conns[d].lis
        /\ conns[c].st = "closed" /\ conns[c].dials = 1
        /\ conns[d].st = "relaying"

\* C14: a listener that has started a relay is back at Accept and holds
\* nothing of the relayed connection; whatever relays are running, a listener
\* at Accept accepts the next connection that arrives.
C14_RelayDoesNotBlockAccept ==
    /\ [](\A k \in Listeners :
            /\ (alive /\ lis[k].pc = "accept" /\ FreeConns # {}) => ENABLED Accept(k)
            /\ \A c \in DOMAIN conns :
                  (conns[c].st = "relaying" /\ conns[c].lis = k) =>
                      lis[k].conn # c /\ lis[k].pc # "forward")
    /\ [][\A c \in DOMAIN conns :
            (alive' /\ conns[c].st = "accepted" /\ conns'[c].st = "relaying") =>
                lis'[conns[c].lis].pc = "accept"]_vars

\* C14 witness: while the relay of a listener's first connection is running
\* without end, the same listener relays a second connection and the other
\* listener a third.
C14_Witness ==
    \E c, d, e \in DOMAIN conns :
        /\ c < d /\ d < e
        /\ conns[c].st = "relaying" /\ conns[d].st = "relaying" /\ conns[e].st = "relaying"
        /\ conns[c].lis = conns[d].lis /\ conns[e].lis # conns[c].lis

\* C15: while the dial for one inbound connection is pending, the listener
\* on the same port accepts the next connection that arrives.
C15_DialDoesNotBlockAccept ==
    \A k \in Listeners :
        (alive /\ lis[k].pc = "dial" /\ FreeConns # {}) => ENABLED Accept(k)

\* C16: when the health check has answered, every mapping was probed, each at
\* its own destination port of one address; the answer is 200 exactly when every probe
\* connected and 500 exactly when one did not, and entry k of the report
\* carries the outcome of probe k as ipv6_alive.
C16_HealthStatusFromProbes ==
    health.status # 0 =>
        /\ Len(health.probes) = NumPorts
        /\ health.status \in {200, 500}
        /\ health.status = 200 <=> \A k \in 1..NumPorts : health.probes[k].ok
        /\ health.status = 500 <=> \E k \in 1..NumPorts : ~health.probes[k].ok
        /\ \A k \in 1..NumPorts :
              /\ health.probes[k].port = IPv6Ports[k]
              /\ health.probes[k].ipv6Addr = health.probes[1].ipv6Addr
              /\ k <= Len(health.body) /\ health.body[k].ipv6_alive = health.probes[k].ok

\* C16 witness: the first probe failed, the last one connected, and the
\* answer is 500.
C16_Witness ==
    /\ health.status = 500 /\ NumPorts > 1
    /\ ~health.probes[1].ok /\ health.probes[NumPorts].ok
    /\ ~health.body[1].ipv6_alive /\ health.body[NumPorts].ipv6_alive

\* C17: the report grows in configuration order and holds, once answered, one
\* entry per mapping: entry k carries IPv4Ports[k] and IPv6Ports[k].
C17_ReportInConfigurationOrder ==
    /\ \A k \in 1..Len(health.statuses) :
          /\ k <= NumPorts
          /\ health.statuses[k].ipv4_port = IPv4Ports[k]
          /\ health.statuses[k].ipv6_port = IPv6Ports[k]
    /\ health.status # 0 =>
          /\ Len(health.body) = NumPorts
          /\ \A k \in 1..NumPorts :
                /\ health.body[k].ipv4_port = SrcPortsEnv[k]
                /\ health.body[k].ipv6_port = DestPortsEnv[k]

\* C17 witness: a report of more than one mapping was answered, its first
\* entry that of the first mapping and its last that of the last.
C17_Witness ==
    /\ health.status # 0 /\ NumPorts > 1
    /\ health.body[1].ipv4_port = IPv4Ports[1]
    /\ health.body[NumPorts].ipv4_port = IPv4Ports[NumPorts]
    /\ IPv4Ports[1] # IPv4Ports[NumPorts]

\* a is a text found inside b
IsSubstring(a, b) ==
    \E i \in 1..(Len(b) - Len(a) + 1) : SubSeq(b, i, i + Len(a) - 1) = a

C19_NoPartOfMalformedRun ==
    \A r \in Reqs :
        \A p \in Prefixes, m \in MalformedRuns, x \in Suffixes :
            (req[r].pc \notin {"idle", "read"} /\ req[r].body = p \o m \o x) =>
                (req[r].addr = <<>> \/ ~IsSubstring(req[r].addr, m))

\* the requests inside saveIPv6Address, between its RLock and its RUnlock
Saving == {r \in Reqs : req[r].pc \in {"create", "write", "return"}}

\* C20: at most one request is inside the file-save section at any time, so
\* that the create and write steps of two saves never interleave.
C20_SavesSerialized == Cardinality(Saving) <= 1

\* the values the address can hold: the one of startup and those written by
\* the updates
WrittenValues ==
    {loadIPv6Address(f) : f \in StartFiles} \cup {req[r].addr : r \in Writers}

\* C21: the address is written only by an update that holds the write lock
\* and read only by tasks that hold the read lock (listener, health check,
\* save); no task holds the read lock while the write lock is held; every
\* value read is the startup value or the address written by one update.
C21_AccessUnderLock ==
    /\ [](/\ mu.held => mu.readers = {}
          /\ \A r \in Reqs :
                /\ req[r].pc \in {"assign", "unlock"} =>
                      mu.held /\ mu.writer = ReqTask(r)
                /\ req[r].pc \in {"create", "write", "return"} =>
                      ReqTask(r) \in mu.readers
                /\ req[r].wrote # <<>> => req[r].wrote \in WrittenValues
          /\ \A k \in Listeners :
                /\ lis[k].pc \in {"read", "runlock"} => LisTask(k) \in mu.readers
                /\ lis[k].ipv6Addr # <<>> => lis[k].ipv6Addr \in WrittenValues
          /\ health.pc \in {"loop", "return"} => HealthTask \in mu.readers
          /\ \A i \in 1..Len(health.probes) :
                health.probes[i].ipv6Addr \in WrittenValues)
    /\ [][(alive' /\ IPv6Address' # IPv6Address) =>
            \E r \in Reqs :
               /\ req[r].pc = "assign" /\ mu.held /\ mu.writer = ReqTask(r)
               /\ IPv6Address' = req[r].addr]_vars

\* C21 witness: a listener, the health check and the save of an update hold
\* the read lock together, and all of them have read that update's address.
C21_Witness ==
    \E k \in Listeners, r \in Reqs :
        /\ {LisTask(k), HealthTask, ReqTask(r)} \subseteq mu.readers
        /\ lis[k].pc = "runlock" /\ lis[k].ipv6Addr = req[r].addr
        /\ Len(health.probes) > 0 /\ health.probes[1].ipv6Addr = req[r].addr
        /\ req[r].pc = "return" /\ req[r].wrote = req[r].addr
        /\ req[r].addr \notin {loadIPv6Address(f) : f \in StartFiles}

\* C22: the address in memory changes only by the assignment of an
\* authorized update that found an address, and to that address; the file
\* changes only by the save of such an update; the steps of listeners, relay
\* and health check change neither. The port lists have equal length, and
\* listeners and health reports use them as they were at startup.
C22_OnlyUpdatesChangeAddress ==
    /\ [](/\ Len(IPv4Ports) = Len(IPv6Ports)
          /\ \A k \in Listeners :
                /\ lis[k].pc # "none" => lis[k].port = SrcPortsEnv[k]
                /\ lis[k].ipv6Port # <<>> => lis[k].ipv6Port = DestPortsEnv[k]
          /\ \A i \in 1..Len(health.statuses) :
                /\ health.statuses[i].ipv4_port = SrcPortsEnv[i]
                /\ health.statuses[i].ipv6_port = DestPortsEnv[i])
    /\ [][alive' =>
            /\ IPv6Address' # IPv6Address =>
                  \E r \in Reqs :
                     /\ req[r].hdr = BearerOf(WebhookToken) /\ req[r].addr # <<>>
                     /\ req[r].pc = "assign" /\ req'[r].pc = "unlock"
                     /\ IPv6Address' = req[r].addr
            /\ file' # file =>
                  \E r \in Reqs :
                     /\ req[r].hdr = BearerOf(WebhookToken) /\ req[r].addr # <<>>
                     /\ req[r].pc \in {"create", "write"} /\ req'[r].pc # req[r].pc
            /\ (lis' # lis \/ conns' # conns \/ mainI' # mainI
                   \/ health' # health \/ relay' # relay) =>
                  IPv6Address' = IPv6Address /\ file' = file]_vars

\* C22 witness: after an update whose save failed the file and the address in
\* memory differ; a health check and a relayed connection have used the
\* address that update wrote in memory.
C22_Witness ==
    \E r \in Reqs, c \in DOMAIN conns :
        /\ req[r].status = 500 /\ req[r].err /\ file.data # IPv6Address
        /\ IPv6Address = req[r].addr
        /\ health.status # 0 /\ health.probes[1].ipv6Addr = IPv6Address
        /\ conns[c].st = "relaying" /\ conns[c].readAddr = IPv6Address

\* no /update handler is between its token check and its response
NoUpdateInProgress == \A r \in Reqs : req[r].pc \in {"idle", "done"}

\* a save that started after the last in-memory write has failed
SaveFailedSinceLastUpdate ==
    \E r \in Reqs : req[r].err /\ req[r].sawWrites = Len(writeLog)

\* C23: once an update has written the address, whenever no update is in
\* progress and no save has failed since the last in-memory write, the file
\* holds exactly the address in memory.
C23_FileEqualsMemoryWhenQuiet ==
    (alive /\ writeLog # <<>> /\ NoUpdateInProgress /\ ~SaveFailedSinceLastUpdate) =>
        file.exists /\ file.data = IPv6Address

\* C23 witness: the save of the first update failed before the second update
\* wrote, the second was answered 200 for another address, and the file
\* holds the address in memory.
C23_Witness ==
    /\ Len(writeLog) = 2 /\ NoUpdateInProgress
    /\ req[writeLog[1]].err /\ req[writeLog[1]].status = 500
    /\ req[writeLog[1]].sawWrites = 1
    /\ req[writeLog[2]].status = 200
    /\ req[writeLog[1]].addr # req[writeLog[2]].addr
    /\ file.data = IPv6Address /\ IPv6Address = req[writeLog[2]].addr

\* C24: the health check holds the read lock from before its first probe
\* until its report is written; while it does, the address in memory does
\* not change, an update that arrives waits for the lock, and all probes of
\* the report are made at one address.
C24_OneAddressPerHealthCheck ==
    /\ [](/\ health.pc \in {"loop", "return"} =>
                /\ HealthTask \in mu.readers /\ ~mu.held
                /\ \A r \in Reqs : req[r].pc \notin {"assign", "unlock"}
                /\ \A i \in 1..Len(health.probes) :
                      health.probes[i].ipv6Addr = IPv6Address
          /\ \A i, j \in 1..Len(health.probes) :
                health.probes[i].ipv6Addr = health.probes[j].ipv6Addr)
    /\ [][(alive' /\ health.pc \in {"loop", "return"}) =>
            IPv6Address' = IPv6Address]_vars

\* C24 witness: an update that arrived after the first probe waits for the
\* lock while the check goes on with the address it started with.
C24_Witness ==
    \E r \in Reqs :
        /\ health.pc = "loop" /\ Len(health.probes) >= 1 /\ health.i <= NumPorts
        /\ req[r].pc = "lockwait" /\ mu.writer = ReqTask(r)
        /\ req[r].addr # IPv6Address
        /\ health.probes[1].ipv6Addr = IPv6Address

\* C25: no task asks for the lock while it holds it; every update that has
\* passed the token check is answered, every health check that holds the
\* lock answers and releases it, and every listener that has accepted a
\* connection gets the read lock and is back at Accept, unless the process
\* has ended.
C25_LockProgress ==
    /\ [](\A r \in Reqs :
            /\ req[r].pc \in {"lock", "lockwait"} => ReqTask(r) \notin mu.readers
            /\ req[r].pc = "rlock" =>
                  ReqTask(r) \notin mu.readers /\ mu.writer # ReqTask(r))
    /\ [](\A k \in Listeners : lis[k].pc = "rlock" => LisTask(k) \notin mu.readers)
    /\ \A r \in Reqs : (req[r].pc = "read") ~> (req[r].pc = "done" \/ ~alive)
    /\ (health.pc = "loop") ~> (health.pc = "done" \/ ~alive)
    /\ \A k \in Listeners :
          (lis[k].pc = "rlock") ~> ((lis[k].pc = "accept" /\ lis[k].conn = 0) \/ ~alive)

\* C25 witness: while the health check holds the read lock an update waits
\* for the write lock and a listener that has accepted a connection waits
\* behind it for the read lock.
C25_Witness ==
    \E r \in Reqs, k \in Listeners :
        /\ health.pc = "loop" /\ HealthTask \in mu.readers
        /\ req[r].pc = "lockwait" /\ mu.writer = ReqTask(r)
        /\ lis[k].pc = "rlock" /\ lis[k].conn # 0
====
